---------------------------- MODULE Spec2Model ----------------------------
(***************************************************************************)
(* A model of the segment trie of src/src/lib.rs (RouterTree and its       *)
(* StaticTreeNode / DynamicTreeNode nodes).                                *)
(*                                                                         *)
(* Strings are sequences of one-character strings, so that splitting and   *)
(* prefix tests work on characters as the Rust code does.  Option<T> is a  *)
(* sequence of length 0 (None) or 1 (Some).  The Handler type              *)
(* (Option<JsValue>) is a string: "None", or the name of the JS value.     *)
(***************************************************************************)
EXTENDS Naturals, Sequences, FiniteSets, TLC

VARIABLES router, log, ret

vars == <<router, log, ret>>

(***************************************************************************)
(* Bounds of the model.                                                    *)
(***************************************************************************)
MaxAdds == 2

MaxLen == 3

(***************************************************************************)
(* Program constants (lib.rs 8-10).                                        *)
(***************************************************************************)
PARAM_PREFIX_DEFAULT == <<":">>

PATH_SEPARATOR_DEFAULT == <<"/">>

WILDCARD_SYMBOL_DEFAULT == <<"*">>

None == "None"

(***************************************************************************)
(* Helpers for Rust's str methods on character sequences.                  *)
(***************************************************************************)
Drop(s, n) == SubSeq(s, n + 1, Len(s))

starts_with(s, p) == Len(p) <= Len(s) /\ SubSeq(s, 1, Len(p)) = p

strip_prefix(s, p) == IF starts_with(s, p) THEN <<Drop(s, Len(p))>> ELSE <<>>

unwrap_or(opt, default) == IF opt = <<>> THEN default ELSE opt[1]

\* Variant: strips one leading occurrence only (str::strip_prefix).
trim_start_once(s, p) == unwrap_or(strip_prefix(s, p), s)

RECURSIVE trim_start_matches(_, _)
trim_start_matches(s, p) ==
    IF p # <<>> /\ starts_with(s, p)
    THEN trim_start_matches(Drop(s, Len(p)), p)
    ELSE s

RECURSIVE SplitFrom(_, _, _)
SplitFrom(s, p, cur) ==
    IF s = <<>> THEN <<cur>>
    ELSE IF starts_with(s, p)
         THEN <<cur>> \o SplitFrom(Drop(s, Len(p)), p, <<>>)
         ELSE SplitFrom(Tail(s), p, Append(cur, Head(s)))

\* Variant: an empty string has no pieces, as in languages whose split
\* drops empty results.
split_skip_empty(s, p) == IF s = <<>> THEN <<>> ELSE SplitFrom(s, p, <<>>)

split(s, p) == SplitFrom(s, p, <<>>)

(***************************************************************************)
(* HashMap: a function; insert overwrites the entry of an existing key.    *)
(***************************************************************************)
EmptyMap == <<>>

\* Variant: keeps the value of a key already present (entry().or_insert()).
insert_keep_first(map, k, v) == map @@ (k :> v)

insert(map, k, v) == (k :> v) @@ map

(***************************************************************************)
(* js_value_to_option (lib.rs 160-166).                                    *)
(***************************************************************************)
\* Variant: without the is_undefined test.
js_value_to_option_null_only(js_value) ==
    IF js_value = "null" THEN None ELSE js_value

js_value_to_option(js_value) ==
    IF js_value = "undefined" \/ js_value = "null" THEN None ELSE js_value

(***************************************************************************)
(* StaticTreeNode and DynamicTreeNode (lib.rs 40-144).                     *)
(***************************************************************************)
StaticTreeNode_new(handler) ==
    [handler |-> handler,
     wildcard_handler |-> None,
     static_children |-> EmptyMap,
     dynamic_child |-> <<>>]

DynamicTreeNode_new(handler, param_name) ==
    [node |-> StaticTreeNode_new(handler), param_name |-> param_name]

add_static_child(self, segment, handler) ==
    [self EXCEPT !.static_children =
        insert(self.static_children, segment, StaticTreeNode_new(handler))]

set_dynamic_child(self, param_name, handler) ==
    [self EXCEPT !.dynamic_child = <<DynamicTreeNode_new(handler, param_name)>>]

delete_dynamic_child(self) == [self EXCEPT !.dynamic_child = <<>>]

set_wildcard_handler(self, handler) ==
    [self EXCEPT !.wildcard_handler = handler]

has_static_child(self, segment) == segment \in DOMAIN self.static_children

\* Variant: add never finds the dynamic child, and so always sets a new one.
has_dynamic_child_never(self) == FALSE

has_dynamic_child(self) == self.dynamic_child # <<>>

get_static_child(self, segment) ==
    IF segment \in DOMAIN self.static_children
    THEN <<self.static_children[segment]>>
    ELSE <<>>

get_dynamic_child(self) == self.dynamic_child

\* Variant: the dynamic child is tried before the static children.
get_child_dynamic_first(self, segment) ==
    IF get_dynamic_child(self) # <<>>
    THEN <<[tag |-> "Dynamic", n |-> get_dynamic_child(self)[1]]>>
    ELSE IF get_static_child(self, segment) # <<>>
         THEN <<[tag |-> "Static", n |-> get_static_child(self, segment)[1]]>>
         ELSE <<>>

\* Variant: the dynamic child is selected for a non-empty segment only.
get_child_non_empty(self, segment) ==
    IF get_static_child(self, segment) # <<>>
    THEN <<[tag |-> "Static", n |-> get_static_child(self, segment)[1]]>>
    ELSE IF get_dynamic_child(self) # <<>> /\ segment # <<>>
         THEN <<[tag |-> "Dynamic", n |-> get_dynamic_child(self)[1]]>>
         ELSE <<>>

\* Option<TreeNode>: the static child keyed by the segment, or else the
\* dynamic child, or else None.
get_child(self, segment) ==
    IF get_static_child(self, segment) # <<>>
    THEN <<[tag |-> "Static", n |-> get_static_child(self, segment)[1]]>>
    ELSE IF get_dynamic_child(self) # <<>>
         THEN <<[tag |-> "Dynamic", n |-> get_dynamic_child(self)[1]]>>
         ELSE <<>>

(***************************************************************************)
(* RouterTree (lib.rs 187-291).                                            *)
(***************************************************************************)
RouterTree_new(handler, param_prefix, path_separator, wildcard_symbol) ==
    [root |-> StaticTreeNode_new(js_value_to_option(handler)),
     path_separator |-> unwrap_or(path_separator, PATH_SEPARATOR_DEFAULT),
     param_prefix |-> unwrap_or(param_prefix, PARAM_PREFIX_DEFAULT),
     wildcard_symbol |-> unwrap_or(wildcard_symbol, WILDCARD_SYMBOL_DEFAULT)]

parse_path(self, path) ==
    split(trim_start_matches(path, self.path_separator), self.path_separator)

is_dynamic_segment(segment, param_prefix) == starts_with(segment, param_prefix)

strip_param_prefix(segment, param_prefix) ==
    unwrap_or(strip_prefix(segment, param_prefix), <<>>)

\* Variant: a last segment equal to the wildcard symbol sets the wildcard
\* handler of the node reached instead of adding a child.
RECURSIVE add_walk_wildcard(_, _, _, _, _)
add_walk_wildcard(current_node, segments, i, param_prefix, handler) ==
    IF i > Len(segments)
    THEN [current_node EXCEPT !.handler = js_value_to_option(handler)]
    ELSE LET segment == segments[i] IN
         IF i = Len(segments) /\ segment = WILDCARD_SYMBOL_DEFAULT
         THEN set_wildcard_handler(current_node, js_value_to_option(handler))
         ELSE IF is_dynamic_segment(segment, param_prefix)
         THEN LET param_name == strip_param_prefix(segment, param_prefix)
                  n == IF ~has_dynamic_child(current_node)
                       THEN set_dynamic_child(current_node, param_name, None)
                       ELSE current_node
              IN [n EXCEPT !.dynamic_child[1].node =
                     add_walk_wildcard(@, segments, i + 1, param_prefix, handler)]
         ELSE LET n == IF ~has_static_child(current_node, segment)
                       THEN add_static_child(current_node, segment, None)
                       ELSE current_node
              IN [n EXCEPT !.static_children[segment] =
                     add_walk_wildcard(@, segments, i + 1, param_prefix, handler)]

\* The loop of add from segment i on, at current_node; the value is the node
\* as the loop and the final assignment of the handler leave it.
RECURSIVE add_walk(_, _, _, _, _)
add_walk(current_node, segments, i, param_prefix, handler) ==
    IF i > Len(segments)
    THEN [current_node EXCEPT !.handler = js_value_to_option(handler)]
    ELSE LET segment == segments[i] IN
         IF is_dynamic_segment(segment, param_prefix)
         THEN LET param_name == strip_param_prefix(segment, param_prefix)
                  n == IF ~has_dynamic_child(current_node)
                       THEN set_dynamic_child(current_node, param_name, None)
                       ELSE current_node
              IN [n EXCEPT !.dynamic_child[1].node =
                     add_walk(@, segments, i + 1, param_prefix, handler)]
         ELSE LET n == IF ~has_static_child(current_node, segment)
                       THEN add_static_child(current_node, segment, None)
                       ELSE current_node
              IN [n EXCEPT !.static_children[segment] =
                     add_walk(@, segments, i + 1, param_prefix, handler)]

add(self, path, handler) ==
    [self EXCEPT !.root =
        add_walk(self.root, parse_path(self, path), 1, self.param_prefix, handler)]

\* Variant: when the walk through the static child fails, the dynamic child
\* is tried.
RECURSIVE traverse_walk_backtracking(_, _, _, _)
traverse_walk_backtracking(current_node, segments, i, params) ==
    IF i > Len(segments)
    THEN <<[node |-> current_node, params |-> params]>>
    ELSE IF current_node.wildcard_handler # None
    THEN <<[node |-> current_node, params |-> params]>>
    ELSE LET segment == segments[i]
             static == get_static_child(current_node, segment)
             dynamic == get_dynamic_child(current_node)
             by_static ==
                 IF static # <<>>
                 THEN traverse_walk_backtracking(static[1], segments, i + 1, params)
                 ELSE <<>>
         IN IF by_static # <<>> \/ dynamic = <<>>
            THEN by_static
            ELSE traverse_walk_backtracking(
                     dynamic[1].node, segments, i + 1,
                     insert(params, dynamic[1].param_name, segment))

\* The loop of traverse_path from segment i on: Option<TraversePathReturn>.
RECURSIVE traverse_walk(_, _, _, _)
traverse_walk(current_node, segments, i, params) ==
    IF i > Len(segments)
    THEN <<[node |-> current_node, params |-> params]>>
    ELSE IF current_node.wildcard_handler # None
    THEN <<[node |-> current_node, params |-> params]>>
    ELSE LET segment == segments[i]
             child == get_child(current_node, segment)
         IN IF child # <<>>
            THEN IF child[1].tag = "Static"
                 THEN traverse_walk(child[1].n, segments, i + 1, params)
                 ELSE traverse_walk(child[1].n.node, segments, i + 1,
                                    insert(params, child[1].n.param_name, segment))
            ELSE <<>>

traverse_path(self, path) ==
    traverse_walk(self.root, parse_path(self, path), 1, EmptyMap)

\* Variant: without the test of the handler.
extract_handler_unchecked(tpr) ==
    <<[handler |-> tpr.node.handler, params |-> tpr.params]>>

\* The params cross to JS as a map of the same keys and values.
extract_handler(tpr) ==
    IF tpr.node.handler # None
    THEN <<[handler |-> tpr.node.handler, params |-> tpr.params]>>
    ELSE <<>>

get(self, path) ==
    LET t == traverse_path(self, path)
    IN IF t = <<>> THEN <<>> ELSE extract_handler(t[1])

(***************************************************************************)
(* The strings the specifications draw their inputs from: patterns (P_)    *)
(* given to add and to get, and further paths (Q_) given to get.           *)
(***************************************************************************)
\* "/user/:id"
P_user_id == <<"/", "u", "s", "e", "r", "/", ":", "i", "d">>

\* "/user/admin"
P_user_admin == <<"/", "u", "s", "e", "r", "/", "a", "d", "m", "i", "n">>

\* "/user/:x"
P_user_x == <<"/", "u", "s", "e", "r", "/", ":", "x">>

\* "/:x/:x"
P_x_x == <<"/", ":", "x", "/", ":", "x">>

\* "/user/123"
Q_user_123 == <<"/", "u", "s", "e", "r", "/", "1", "2", "3">>

\* "/user/42"
Q_user_42 == <<"/", "u", "s", "e", "r", "/", "4", "2">>

\* "/user"
Q_user == <<"/", "u", "s", "e", "r">>

\* "/user/123/extra"
Q_user_123_extra == <<"/", "u", "s", "e", "r", "/", "1", "2", "3", "/", "e", "x", "t", "r", "a">>

\* "/user/"
Q_user_slash == <<"/", "u", "s", "e", "r", "/">>

\* "/1/2"
Q_1_2 == <<"/", "1", "/", "2">>

\* "/a/:x/b"
P_a_x_b == <<"/", "a", "/", ":", "x", "/", "b">>

\* "/a/:y/c"
P_a_y_c == <<"/", "a", "/", ":", "y", "/", "c">>

\* "/a/b/c"
P_a_b_c == <<"/", "a", "/", "b", "/", "c">>

\* "/a/:x/d"
P_a_x_d == <<"/", "a", "/", ":", "x", "/", "d">>

\* "/a/1/b"
Q_a_1_b == <<"/", "a", "/", "1", "/", "b">>

\* "/a/1/c"
Q_a_1_c == <<"/", "a", "/", "1", "/", "c">>

\* "/a/b/d"
Q_a_b_d == <<"/", "a", "/", "b", "/", "d">>

\* "/a/1/d"
Q_a_1_d == <<"/", "a", "/", "1", "/", "d">>

\* "/a"
P_a == <<"/", "a">>

\* "/a/*"
P_a_star == <<"/", "a", "/", "*">>

\* "/:x"
P_x == <<"/", ":", "x">>

\* "/a/x"
Q_a_x == <<"/", "a", "/", "x">>

\* "/a/x/y"
Q_a_x_y == <<"/", "a", "/", "x", "/", "y">>

\* "/*"
Q_star == <<"/", "*">>

Patterns == {P_user_id, P_user_admin, P_user_x, P_x_x}

Paths ==
    Patterns \cup
    {Q_user_123, Q_user_42, Q_user, Q_user_123_extra, Q_user_slash, Q_1_2}

DynPatterns == {P_a_x_b, P_a_y_c, P_a_b_c, P_a_x_d}

DynPaths == DynPatterns \cup {Q_a_1_b, Q_a_1_c, Q_a_b_d, Q_a_1_d}

LitPatterns == {P_a, P_a_star, P_x}

LitPaths == LitPatterns \cup {Q_a_x, Q_a_x_y, Q_star}

\* The JS values given as handlers: absent ones and functions.
AddHandlers == {"undefined", "H1", "H2"}

RootHandlers == {"null", "R"}

\* Every string of at most MaxLen characters over Chars.
Chars == {"/", ":", "a"}

Strings == UNION {[1..k -> Chars] : k \in 0..MaxLen}

(***************************************************************************)
(* The state: the router, the add calls made so far (a history variable)   *)
(* and the last call with what it returned.                                *)
(***************************************************************************)
Init ==
    /\ \E h \in RootHandlers : router = RouterTree_new(h, <<>>, <<>>, <<>>)
    /\ log = <<>>
    /\ ret = [op |-> "new", path |-> <<>>, out |-> <<>>]

Add(path, handler) ==
    /\ router' = add(router, path, handler)
    /\ log' = Append(log, [path |-> path, handler |-> handler])
    /\ ret' = [op |-> "add", path |-> path, out |-> <<>>]

Get(path) ==
    /\ ret' = [op |-> "get", path |-> path, out |-> get(router, path)]
    /\ UNCHANGED <<router, log>>

\* Routes with parameters under /user.
Next ==
    \/ \E path \in Patterns, handler \in AddHandlers :
          Len(log) < MaxAdds /\ Add(path, handler)
    \/ \E path \in Paths : Get(path)

Spec == Init /\ [][Next]_vars

\* Routes whose dynamic segments meet at one node under /a.
NextDyn ==
    \/ \E path \in DynPatterns, handler \in AddHandlers :
          Len(log) < MaxAdds /\ Add(path, handler)
    \/ \E path \in DynPaths : Get(path)

SpecDyn == Init /\ [][NextDyn]_vars

\* Literal routes, one of them ending in the wildcard symbol.
NextLit ==
    \/ \E path \in LitPatterns, handler \in AddHandlers :
          Len(log) < MaxAdds /\ Add(path, handler)
    \/ \E path \in LitPaths : Get(path)

SpecLit == Init /\ [][NextLit]_vars

\* A router made with the root handler R, one insertion of any string and
\* lookups of any string.
InitStrings ==
    /\ router = RouterTree_new("R", <<>>, <<>>, <<>>)
    /\ log = <<>>
    /\ ret = [op |-> "new", path |-> <<>>, out |-> <<>>]

NextStrings ==
    \/ \E path \in Strings : log = <<>> /\ Add(path, "H1")
    \/ \E path \in Strings : Get(path)

SpecStrings == InitStrings /\ [][NextStrings]_vars

(***************************************************************************)
(* Notions the properties are stated with.  They read the fields of the    *)
(* tree and the history directly.                                          *)
(***************************************************************************)
Segs(path) == parse_path(router, path)

Absent(js_value) == js_value \in {"undefined", "null"}

LastAdd == log[Len(log)]

\* A pattern segment is dynamic when it begins with ':'; its name follows.
IsDynSeg(seg) == Len(seg) >= 1 /\ seg[1] = ":"

SegName(seg) == SubSeq(seg, 2, Len(seg))

DynPos(ps) == {i \in 1..Len(ps) : IsDynSeg(ps[i])}

\* Every node of the tree below and including n.
RECURSIVE Nodes(_)
Nodes(n) ==
    {n}
    \cup UNION {Nodes(n.static_children[s]) : s \in DOMAIN n.static_children}
    \cup (IF n.dynamic_child = <<>> THEN {} ELSE Nodes(n.dynamic_child[1].node))

\* The node that the first k segments of the pattern ps address from n: the
\* dynamic child for a dynamic segment, the static child keyed by the text
\* otherwise (an Option).
RECURSIVE RouteNode(_, _, _)
RouteNode(n, ps, k) ==
    IF k = 0 THEN <<n>>
    ELSE LET prev == RouteNode(n, ps, k - 1) IN
         IF prev = <<>> THEN <<>>
         ELSE IF IsDynSeg(ps[k])
              THEN IF prev[1].dynamic_child = <<>> THEN <<>>
                   ELSE <<prev[1].dynamic_child[1].node>>
              ELSE IF ps[k] \in DOMAIN prev[1].static_children
                   THEN <<prev[1].static_children[ps[k]]>>
                   ELSE <<>>

\* The name under which the dynamic child at position i of ps is registered.
RegName(n, ps, i) == RouteNode(n, ps, i - 1)[1].dynamic_child[1].param_name

\* The position of a pattern in the tree, whatever its parameter names.
Route(ps) ==
    [i \in 1..Len(ps) |-> IF IsDynSeg(ps[i]) THEN <<"D", <<>>>> ELSE <<"S", ps[i]>>]

Max(S) == CHOOSE j \in S : \A k \in S : k <= j

Min(S) == CHOOSE j \in S : \A k \in S : j <= k

Match(handler, params) == <<[handler |-> handler, params |-> params]>>

NoMatch == <<>>

(***************************************************************************)
(* C1.  After add(pattern, H) with H present, get(path) for a path with    *)
(* as many segments as the pattern, equal to it at every static segment    *)
(* and, at each dynamic segment, not the text of a static sibling.         *)
(***************************************************************************)
C1_Matches(ps, qs) ==
    /\ Len(qs) = Len(ps)
    /\ \A i \in 1..Len(ps) :
          IF IsDynSeg(ps[i])
          THEN qs[i] \notin DOMAIN RouteNode(router.root, ps, i - 1)[1].static_children
          ELSE qs[i] = ps[i]

C1_Case ==
    /\ ret.op = "get"
    /\ log # <<>>
    /\ ~Absent(LastAdd.handler)
    /\ C1_Matches(Segs(LastAdd.path), Segs(ret.path))

\* C1 as stated: get returns H and binds each dynamic segment's own name to
\* the path's segment at that position, and no other name.
C1_Original ==
    C1_Case =>
        LET ps == Segs(LastAdd.path)
            qs == Segs(ret.path)
        IN /\ ret.out # NoMatch
           /\ ret.out[1].handler = LastAdd.handler
           /\ DOMAIN ret.out[1].params = {SegName(ps[i]) : i \in DynPos(ps)}
           /\ \A i \in DynPos(ps) : ret.out[1].params[SegName(ps[i])] = qs[i]

\* C1 (amended): get returns H and binds, for each dynamic position, the
\* name under which the dynamic child there is registered (that of the first
\* dynamic pattern inserted at that position) to the path's segment at that
\* position, the last position winning where a name repeats, and no other
\* name.
C1_ExactMatchBindsRegisteredNames ==
    C1_Case =>
        LET ps == Segs(LastAdd.path)
            qs == Segs(ret.path)
            name(i) == RegName(router.root, ps, i)
        IN /\ ret.out # NoMatch
           /\ ret.out[1].handler = LastAdd.handler
           /\ DOMAIN ret.out[1].params = {name(i) : i \in DynPos(ps)}
           /\ \A i \in DynPos(ps) :
                 ret.out[1].params[name(i)] =
                     qs[Max({j \in DynPos(ps) : name(j) = name(i)})]

\* add("/user/:id", H1) then get("/user/123") gives (H1, {id: "123"}).
C1_Witness ==
    /\ log = <<[path |-> P_user_id, handler |-> "H1"]>>
    /\ ret = [op |-> "get", path |-> Q_user_123,
              out |-> Match("H1", (<<"i", "d">> :> <<"1", "2", "3">>))]

\* The segments looked up, and the two user routes in either order.
PathSegments == UNION {{Segs(q)[i] : i \in 1..Len(Segs(q))} : q \in Paths}

C3_UserRoutes ==
    log \in {<<[path |-> P_user_id, handler |-> "H1"],
               [path |-> P_user_admin, handler |-> "H2"]>>,
             <<[path |-> P_user_admin, handler |-> "H2"],
               [path |-> P_user_id, handler |-> "H1"]>>}

(***************************************************************************)
(* C3.  Static precedence over dynamic at the same level, whatever the     *)
(* insertion order: at every node, a segment that is the key of a static   *)
(* child selects that child; the dynamic child is selected only when no    *)
(* static child has that text.  With "/user/:id" -> H1 and "/user/admin"   *)
(* -> H2 inserted in either order, get("/user/admin") gives (H2, {}) and   *)
(* get("/user/42") gives (H1, {id: "42"}).                                 *)
(***************************************************************************)
C3_StaticPrecedence ==
    /\ \A n \in Nodes(router.root), seg \in PathSegments :
          get_child(n, seg) =
              IF seg \in DOMAIN n.static_children
              THEN <<[tag |-> "Static", n |-> n.static_children[seg]]>>
              ELSE IF n.dynamic_child # <<>>
                   THEN <<[tag |-> "Dynamic", n |-> n.dynamic_child[1]]>>
                   ELSE <<>>
    /\ (C3_UserRoutes /\ ret.op = "get" /\ ret.path = P_user_admin)
          => ret.out = Match("H2", EmptyMap)
    /\ (C3_UserRoutes /\ ret.op = "get" /\ ret.path = Q_user_42)
          => ret.out = Match("H1", (<<"i", "d">> :> <<"4", "2">>))

\* The static route inserted first, the dynamic one second, then
\* get("/user/admin").
C3_Witness ==
    /\ log = <<[path |-> P_user_admin, handler |-> "H2"],
               [path |-> P_user_id, handler |-> "H1"]>>
    /\ ret = [op |-> "get", path |-> P_user_admin, out |-> Match("H2", EmptyMap)]

\* The pattern ps fits the shape of the path qs.
C5_StructMatch(ps, qs) ==
    /\ Len(ps) = Len(qs)
    /\ \A i \in 1..Len(ps) : IsDynSeg(ps[i]) \/ ps[i] = qs[i]

(***************************************************************************)
(* C5.  No match is a normal return value of get: a match carries a        *)
(* present handler and is returned only when some inserted pattern with a  *)
(* present handler has as many segments as the path and equals it at every *)
(* static segment; after only add("/user/:id", H1), get("/user") and       *)
(* get("/user/123/extra") return no match.                                 *)
(***************************************************************************)
C5_NoMatchOnStructuralMismatch ==
    ret.op = "get" =>
        /\ ret.out # NoMatch =>
              /\ ret.out[1].handler # None
              /\ \E k \in 1..Len(log) :
                    /\ ~Absent(log[k].handler)
                    /\ C5_StructMatch(Segs(log[k].path), Segs(ret.path))
        /\ (log = <<[path |-> P_user_id, handler |-> "H1"]>>
            /\ ret.path \in {Q_user, Q_user_123_extra})
              => ret.out = NoMatch

\* get("/user/123/extra") after only add("/user/:id", H1).
C5_Witness ==
    /\ log = <<[path |-> P_user_id, handler |-> "H1"]>>
    /\ ret = [op |-> "get", path |-> Q_user_123_extra, out |-> NoMatch]

(***************************************************************************)
(* C7.  The segment values a dynamic child captures.                       *)
(***************************************************************************)
C7_Case ==
    /\ log = <<[path |-> P_user_id, handler |-> "H1"]>>
    /\ ret.op = "get"
    /\ ret.path = Q_user_slash

\* C7 as stated: a dynamic child captures only a non-empty segment, so no
\* returned parameter is empty and get("/user/") after only
\* add("/user/:id", H1) returns no match.
C7_Original ==
    /\ (ret.op = "get" /\ ret.out # NoMatch)
          => \A name \in DOMAIN ret.out[1].params : ret.out[1].params[name] # <<>>
    /\ C7_Case => ret.out = NoMatch

\* C7 (amended): a dynamic child matches any single segment value, the
\* empty one included: at every node with a dynamic child and no static
\* child keyed "", the empty segment selects the dynamic child, and after
\* only add("/user/:id", H1), get("/user/") returns (H1, {id: ""}).
C7_DynamicChildCapturesEmptySegment ==
    /\ \A n \in Nodes(router.root) :
          (n.dynamic_child # <<>> /\ <<>> \notin DOMAIN n.static_children)
              => get_child(n, <<>>) = <<[tag |-> "Dynamic", n |-> n.dynamic_child[1]]>>
    /\ C7_Case => ret.out = Match("H1", (<<"i", "d">> :> <<>>))

C7_Witness == C7_Case /\ ret.out # NoMatch

(***************************************************************************)
(* C2.  What add does at a node that already has a dynamic child           *)
(* registered under another parameter name.                                *)
(***************************************************************************)
C2_Case ==
    /\ log = <<[path |-> P_a_x_b, handler |-> "H1"],
               [path |-> P_a_y_c, handler |-> "H2"]>>
    /\ ret.op = "get"

\* C2 as stated: the old dynamic child and the patterns beneath it are
\* discarded, so after add("/a/:x/b", H1) then add("/a/:y/c", H2),
\* get("/a/1/b") returns no match and get("/a/1/c") returns (H2, {y: "1"}).
C2_Original ==
    /\ (C2_Case /\ ret.path = Q_a_1_b) => ret.out = NoMatch
    /\ (C2_Case /\ ret.path = Q_a_1_c) => ret.out = Match("H2", (<<"y">> :> <<"1">>))

\* The add calls made at the same position as call k, and those that walk a
\* dynamic segment at position i of the pattern of call k.
C2_SameRoute(k) ==
    {j \in 1..Len(log) : Route(Segs(log[j].path)) = Route(Segs(log[k].path))}

C2_SameDynamic(k, i) ==
    {j \in 1..Len(log) :
        /\ Len(Segs(log[j].path)) >= i
        /\ SubSeq(Route(Segs(log[j].path)), 1, i) = SubSeq(Route(Segs(log[k].path)), 1, i)}

\* C2 (amended): add reuses an existing dynamic child, keeping its name and
\* everything beneath it.  Every pattern inserted so far still addresses a
\* node, which holds the handler of the last add made at that position, and
\* every dynamic child carries the name given by the first pattern that
\* walked a dynamic segment there; after add("/a/:x/b", H1) then
\* add("/a/:y/c", H2), get("/a/1/b") returns (H1, {x: "1"}) and get("/a/1/c")
\* returns (H2, {x: "1"}).
C2_DynamicChildReused ==
    /\ \A k \in 1..Len(log) :
          LET ps == Segs(log[k].path)
              at == RouteNode(router.root, ps, Len(ps))
              last == log[Max(C2_SameRoute(k))].handler
          IN /\ at # <<>>
             /\ at[1].handler = (IF Absent(last) THEN None ELSE last)
             /\ \A i \in DynPos(ps) :
                   RegName(router.root, ps, i) =
                       SegName(Segs(log[Min(C2_SameDynamic(k, i))].path)[i])
    /\ (C2_Case /\ ret.path = Q_a_1_b) => ret.out = Match("H1", (<<"x">> :> <<"1">>))
    /\ (C2_Case /\ ret.path = Q_a_1_c) => ret.out = Match("H2", (<<"x">> :> <<"1">>))

C2_Witness == C2_Case /\ ret.path = Q_a_1_b /\ ret.out # NoMatch

\* The rests of the paths looked up, and the two routes in either order.
C8_Suffixes ==
    UNION {{SubSeq(Segs(q), j, Len(Segs(q))) : j \in 1..Len(Segs(q))} : q \in DynPaths}

C8_Routes ==
    log \in {<<[path |-> P_a_b_c, handler |-> "H1"],
               [path |-> P_a_x_d, handler |-> "H2"]>>,
             <<[path |-> P_a_x_d, handler |-> "H2"],
               [path |-> P_a_b_c, handler |-> "H1"]>>}

(***************************************************************************)
(* C8.  No backtracking in lookup: where the current node has a static     *)
(* child for the next segment, the outcome of the walk from that node does *)
(* not depend on the node's dynamic child; with "/a/b/c" -> H1 and         *)
(* "/a/:x/d" -> H2 inserted, get("/a/b/d") returns no match.               *)
(***************************************************************************)
C8_NoBacktracking ==
    /\ \A n \in Nodes(router.root), ss \in C8_Suffixes :
          ss[1] \in DOMAIN n.static_children
              => traverse_walk(n, ss, 1, EmptyMap)
                     = traverse_walk(delete_dynamic_child(n), ss, 1, EmptyMap)
    /\ (C8_Routes /\ ret.op = "get" /\ ret.path = Q_a_b_d) => ret.out = NoMatch

C8_Witness ==
    /\ C8_Routes
    /\ ret = [op |-> "get", path |-> Q_a_b_d, out |-> NoMatch]
    /\ get(router, Q_a_1_d) = Match("H2", (<<"x">> :> <<"1">>))

\* The positions of the nodes of the tree at and below n, and the node at one.
RECURSIVE Routes(_)
Routes(n) ==
    {<<>>}
    \cup UNION {{<<<<"S", s>>>> \o r : r \in Routes(n.static_children[s])} :
                   s \in DOMAIN n.static_children}
    \cup (IF n.dynamic_child = <<>> THEN {}
          ELSE {<<<<"D", <<>>>>>> \o r : r \in Routes(n.dynamic_child[1].node)})

RECURSIVE NodeAt(_, _)
NodeAt(n, r) ==
    IF r = <<>> THEN n
    ELSE IF r[1][1] = "D"
         THEN NodeAt(n.dynamic_child[1].node, Tail(r))
         ELSE NodeAt(n.static_children[r[1][2]], Tail(r))

\* What a step of add or get satisfies.
C4_Step ==
    /\ ret'.op = "add" =>
          \A r \in Routes(router.root) :
              r # Route(Segs(ret'.path)) =>
                  /\ r \in Routes(router'.root)
                  /\ NodeAt(router'.root, r).handler = NodeAt(router.root, r).handler
    /\ (ret'.op = "get" /\ log' # <<>> /\ ret'.path = log'[Len(log')].path) =>
          LET h == log'[Len(log')].handler
          IN IF Absent(h)
             THEN ret'.out = NoMatch
             ELSE ret'.out # NoMatch /\ ret'.out[1].handler = h

(***************************************************************************)
(* C4.  Overwrite semantics (last add wins): in every step, an add leaves  *)
(* the handler of every node other than the one its pattern addresses as   *)
(* it was, and a get of the pattern of the last add returns the handler of *)
(* that add, or no match when that handler is absent (null or undefined).  *)
(***************************************************************************)
C4_LastAddWins == [][C4_Step]_vars

\* add("/a", H1), add("/a", H2), then get("/a") gives H2.
C4_Witness ==
    /\ log = <<[path |-> P_a, handler |-> "H1"], [path |-> P_a, handler |-> "H2"]>>
    /\ ret = [op |-> "get", path |-> P_a, out |-> Match("H2", EmptyMap)]

\* Only add("/a/*", H1) was made, and the last call is a get.
C9_Case == log = <<[path |-> P_a_star, handler |-> "H1"]>> /\ ret.op = "get"

(***************************************************************************)
(* C9.  Wildcard matching is inert through new, add and get: no node of    *)
(* the tree has a wildcard_handler; a pattern segment equal to the         *)
(* wildcard symbol addresses a static child keyed "*"; after only          *)
(* add("/a/*", H1), get("/a/*") gives (H1, {}) and get("/a/x") and         *)
(* get("/a/x/y") give no match.                                            *)
(***************************************************************************)
C9_WildcardInert ==
    /\ \A n \in Nodes(router.root) : n.wildcard_handler = None
    /\ \A k \in 1..Len(log) :
          LET ps == Segs(log[k].path)
          IN \A i \in 1..Len(ps) :
                ps[i] = WILDCARD_SYMBOL_DEFAULT =>
                    ps[i] \in DOMAIN RouteNode(router.root, ps, i - 1)[1].static_children
    /\ (C9_Case /\ ret.path = P_a_star) => ret.out = Match("H1", EmptyMap)
    /\ (C9_Case /\ ret.path \in {Q_a_x, Q_a_x_y}) => ret.out = NoMatch

C9_Witness == C9_Case /\ ret.path = Q_a_x_y /\ ret.out = NoMatch

(***************************************************************************)
(* C6.  The leading separators that add and get strip.                     *)
(***************************************************************************)
\* "//a"
Q_slash_slash_a == <<"/", "/", "a">>

C6_Case ==
    /\ log = <<[path |-> P_a, handler |-> "H1"]>>
    /\ ret.op = "get"
    /\ ret.path = Q_slash_slash_a

IsSep(c) == <<c>> = PATH_SEPARATOR_DEFAULT

\* s without one leading separator, and s without all of them.
TrimOne(s) == IF s # <<>> /\ IsSep(s[1]) THEN Tail(s) ELSE s

TrimAll(s) ==
    SubSeq(s, Max({j \in 0..Len(s) : \A i \in 1..j : IsSep(s[i])}) + 1, Len(s))

RECURSIVE Join(_)
Join(segs) ==
    IF Len(segs) = 1 THEN segs[1]
    ELSE segs[1] \o PATH_SEPARATOR_DEFAULT \o Join(Tail(segs))

\* segs are the pieces of s between its separators.
IsSplitOf(segs, s) ==
    /\ Len(segs) >= 1
    /\ Join(segs) = s
    /\ \A i \in 1..Len(segs) : \A j \in 1..Len(segs[i]) : ~IsSep(segs[i][j])

\* C6 as stated: the segments of a call's string are the pieces of the
\* string less at most one leading separator, and after only add("/a", H1),
\* get("//a") returns no match.
C6_Original ==
    /\ ret.op \in {"add", "get"} => IsSplitOf(Segs(ret.path), TrimOne(ret.path))
    /\ C6_Case => ret.out = NoMatch

\* C6 (amended): add and get strip every leading separator and split the
\* rest on every separator: the segments of a call's string are the pieces
\* of the string less all its leading separators, so a get of a string that
\* differs from the inserted one only in leading separators finds the
\* inserted handler; after only add("/a", H1), get("//a") returns (H1, {}).
C6_AllLeadingSeparatorsStripped ==
    /\ ret.op \in {"add", "get"} => IsSplitOf(Segs(ret.path), TrimAll(ret.path))
    /\ (ret.op = "get" /\ log # <<>> /\ TrimAll(ret.path) = TrimAll(LastAdd.path))
          => (ret.out # NoMatch /\ ret.out[1].handler = LastAdd.handler)
    /\ C6_Case => ret.out = Match("H1", EmptyMap)

C6_Witness == C6_Case /\ ret.out # NoMatch

\* Only add("", H1) was made.
C10_Case == log = <<[path |-> <<>>, handler |-> "H1"]>>

(***************************************************************************)
(* C10.  The root handler is unreachable through add and get: the string   *)
(* of every call splits into at least one segment; the root keeps the      *)
(* handler R it was made with; get never returns R, and returns no match   *)
(* for every path while nothing is inserted; after add("", H1), get("")    *)
(* and get("/") return H1, held by the static child keyed "".              *)
(***************************************************************************)
C10_RootHandlerUnreachable ==
    /\ router.root.handler = "R"
    /\ ret.op \in {"add", "get"} => Len(Segs(ret.path)) >= 1
    /\ (ret.op = "get" /\ ret.out # NoMatch) => ret.out[1].handler # "R"
    /\ (ret.op = "get" /\ log = <<>>) => ret.out = NoMatch
    /\ C10_Case =>
          /\ <<>> \in DOMAIN router.root.static_children
          /\ router.root.static_children[<<>>].handler = "H1"
          /\ (ret.op = "get" /\ ret.path \in {<<>>, <<"/">>})
                => ret.out = Match("H1", EmptyMap)

C10_Witness ==
    /\ C10_Case
    /\ ret = [op |-> "get", path |-> <<"/">>, out |-> Match("H1", EmptyMap)]
    /\ router.root.handler = "R"

=============================================================================
